---- MODULE Spec2Model ----
(***************************************************************************)
(* Model of the public application form controller                        *)
(* (src/app/apply/[jobId]/page.tsx): the field validators, the validation *)
(* state (errors / touched), the three-step form, the deadline gate that  *)
(* runs once after mount and the simulated submission.                    *)
(*                                                                         *)
(* JavaScript strings are sequences of one-character strings; the empty   *)
(* string and an absent optional property are both the empty sequence     *)
(* (both are falsy in the code's tests).  A nullable File is the empty    *)
(* sequence (null) or a one-element sequence holding the file record.     *)
(* Every handler is one atomic action: React flushes the state updates of *)
(* a discrete event (and of a timer callback) before the next event runs. *)
(***************************************************************************)
EXTENDS Integers, Sequences, FiniteSets, TLC

VARIABLES step, isSubmitting, isSuccess, isClosed, isLoading,
          jobInfo, formData, errors, touched,
          loadTimer, submitTimers, sinkDraft, now

vars == <<step, isSubmitting, isSuccess, isClosed, isLoading,
          jobInfo, formData, errors, touched,
          loadTimer, submitTimers, sinkDraft, now>>

(* ------------------------------ bounds -------------------------------- *)
\* the clock runs from 0 to MaxClock
MaxClock == 2
\* cap on the number of submit timeouts pending at once
MaxTimers == 2

(* --------------------------- string helpers --------------------------- *)
Digits == {"0", "1", "2", "3", "4", "5", "6", "7", "8", "9"}

\* \s of the regular expressions and of String.prototype.trim
Whitespace == {" "}

\* a JavaScript value used as a condition: "" and undefined/null are falsy
Truthy(v) == v # <<>>

RECURSIVE TrimStart(_)
TrimStart(s) ==
    IF s # <<>> /\ Head(s) \in Whitespace THEN TrimStart(Tail(s)) ELSE s

RECURSIVE TrimEnd(_)
TrimEnd(s) ==
    IF s # <<>> /\ s[Len(s)] \in Whitespace
    THEN TrimEnd(SubSeq(s, 1, Len(s) - 1))
    ELSE s

\* String.prototype.trim
Trim(s) == TrimEnd(TrimStart(s))

\* String.prototype.toLowerCase, one character
LowerChar(c) ==
    CASE c = "P" -> "p"
      [] c = "D" -> "d"
      [] c = "F" -> "f"
      [] c = "O" -> "o"
      [] c = "C" -> "c"
      [] c = "X" -> "x"
      [] c = "T" -> "t"
      [] c = "R" -> "r"
      [] OTHER -> c

ToLowerCase(s) == [i \in 1..Len(s) |-> LowerChar(s[i])]

\* name.split(".").pop(): the text after the last ".", the whole name when
\* it holds no "."
LastSegment(s) ==
    LET dots == {i \in 1..Len(s) : s[i] = "."}
    IN  IF dots = {} THEN s
        ELSE LET last == CHOOSE i \in dots : \A j \in dots : j <= i
             IN  SubSeq(s, last + 1, Len(s))

(* ----------------------------- validators ----------------------------- *)
NoError == ""

\* validateFullName without the digit test
validateFullName_NoDigitTest(name) ==
    IF ~Truthy(Trim(name)) THEN "Full name is required"
    ELSE IF Len(Trim(name)) < 2 THEN "Name must be at least 2 characters"
    ELSE NoError

validateFullName(name) ==
    IF ~Truthy(Trim(name)) THEN "Full name is required"
    ELSE IF Len(Trim(name)) < 2 THEN "Name must be at least 2 characters"
    ELSE IF \E i \in 1..Len(name) : name[i] \in Digits
         THEN "Name cannot contain numbers"
    ELSE NoError

\* /^[^\s@]+@[^\s@]+\.[^\s@]+$/
emailRegex(s) ==
    \E i \in 1..Len(s) : \E j \in 1..Len(s) :
        /\ s[i] = "@"
        /\ i > 1
        /\ s[j] = "."
        /\ j > i + 1
        /\ j < Len(s)
        /\ \A k \in 1..Len(s) : k # i => s[k] \notin (Whitespace \cup {"@"})

validateEmail(email) ==
    IF ~Truthy(Trim(email)) THEN "Email is required"
    ELSE IF ~emailRegex(email) THEN "Please enter a valid email"
    ELSE NoError

PhoneChars == Digits \cup Whitespace \cup {"-", "+", "(", ")"}

\* phone.replace(/\D/g, "").length
DigitCount(s) == Cardinality({i \in 1..Len(s) : s[i] \in Digits})

MinPhoneDigits == 10

validatePhone(phone) ==
    IF ~Truthy(Trim(phone)) THEN "Phone number is required"
    ELSE LET phoneRegex ==
                 /\ Len(phone) >= 1
                 /\ \A i \in 1..Len(phone) : phone[i] \in PhoneChars
                 /\ DigitCount(phone) >= MinPhoneDigits
         IN  IF ~phoneRegex THEN "Please enter a valid phone number"
             ELSE NoError

validExtensions ==
    { <<".", "p", "d", "f">>, <<".", "d", "o", "c">>,
      <<".", "d", "o", "c", "x">> }

MaxFileSize == 10 * 1024 * 1024

\* validateCV rejecting a file of exactly the maximum size
validateCV_SizeInclusive(cv) ==
    IF ~Truthy(cv) THEN "CV/Resume is required"
    ELSE LET fileExtension == <<".">> \o ToLowerCase(LastSegment(cv[1].name))
         IN  IF fileExtension \notin validExtensions
             THEN "Only PDF, DOC, DOCX allowed"
             ELSE IF cv[1].size >= MaxFileSize
                  THEN "File size must be less than 10MB"
                  ELSE NoError

validateCV(cv) ==
    IF ~Truthy(cv) THEN "CV/Resume is required"
    ELSE LET fileExtension == <<".">> \o ToLowerCase(LastSegment(cv[1].name))
         IN  IF fileExtension \notin validExtensions
             THEN "Only PDF, DOC, DOCX allowed"
             ELSE IF cv[1].size > MaxFileSize
                  THEN "File size must be less than 10MB"
                  ELSE NoError

(* ------------------------------- fields ------------------------------- *)
Step1Fields == {"fullName", "email", "phone", "cv"}
TextFields == {"fullName", "email", "phone"}
AnswerFields == {"answer1", "answer2", "answer3", "answer4"}
FieldNames == Step1Fields \cup AnswerFields

\* a key that an errors object does not hold
Unset == "<unset>"

\* the screening question an answer field belongs to
QuestionOf(name) ==
    CASE name = "answer1" -> jobInfo.question1
      [] name = "answer2" -> jobInfo.question2
      [] name = "answer3" -> jobInfo.question3
      [] name = "answer4" -> jobInfo.question4

(* ------------------------- step validation ---------------------------- *)
\* newErrors of validateStep1
Step1Errors(fd) ==
    [f \in FieldNames |->
        CASE f = "fullName" -> validateFullName(fd.fullName)
          [] f = "email" -> validateEmail(fd.email)
          [] f = "phone" -> validatePhone(fd.phone)
          [] f = "cv" -> validateCV(fd.cv)
          [] OTHER -> Unset]

\* setTouched of validateStep1 without the cv key
Step1Touched_NoCV == [f \in FieldNames |-> f \in TextFields]

\* the touched object validateStep1 stores
Step1Touched == [f \in FieldNames |-> f \in Step1Fields]

\* validateStep1 with the file check left out of the result
validateStep1_SkipCV(fd) ==
    ~\E f \in Step1Fields \ {"cv"} : Step1Errors(fd)[f] # NoError

\* the value validateStep1 returns
validateStep1(fd) ==
    ~\E f \in Step1Fields : Step1Errors(fd)[f] # NoError

\* validateStep2 with the second question slot left out
validateStep2_SkipSecond(fd, job) ==
    IF ~Truthy(fd.answer1) /\ Truthy(job.question1) THEN FALSE
    ELSE IF ~Truthy(fd.answer3) /\ Truthy(job.question3) THEN FALSE
    ELSE IF ~Truthy(fd.answer4) /\ Truthy(job.question4) THEN FALSE
    ELSE TRUE

validateStep2(fd, job) ==
    IF ~Truthy(fd.answer1) /\ Truthy(job.question1) THEN FALSE
    ELSE IF ~Truthy(fd.answer2) /\ Truthy(job.question2) THEN FALSE
    ELSE IF ~Truthy(fd.answer3) /\ Truthy(job.question3) THEN FALSE
    ELSE IF ~Truthy(fd.answer4) /\ Truthy(job.question4) THEN FALSE
    ELSE TRUE

(* ---------------------------- deadline gate --------------------------- *)
\* length of a day in clock ticks
TicksPerDay == 2

\* new Date(`${applicationCloseDate}T${applicationCloseTime}`) as an instant
closeDateTime(job) ==
    job.applicationCloseDate[1] * TicksPerDay + job.applicationCloseTime[1]

(* ------------------------------ rendering ----------------------------- *)
\* the render function without the early return of the closed page
FormRendered_NoClosedPage == ~isLoading /\ ~isSuccess

\* the form is rendered unless one of the three early returns is taken
FormRendered == ~isLoading /\ ~isClosed /\ ~isSuccess

\* a submit button that stays clickable while it shows the loading state
SubmitButtonEnabled_Always == TRUE

\* the submit button takes isLoading = isSubmitting; a loading button does
\* not accept a click
SubmitButtonEnabled == ~isSubmitting

(* ------------------------------- inputs ------------------------------- *)
File(n, s) == <<[name |-> n, size |-> s]>>

NameInputs == { <<>>, <<"A", "l">>, <<"A", "1">> }
EmailInputs == { <<>>, <<"a", "@", "b", ".", "c">>, <<"a", "@", "b">> }
PhoneInputs ==
    { <<>>, <<"1", "2", "3">>,
      <<"5", "5", "5", "-", "1", "2", "3", "-", "4", "5", "6", "7">> }
FileInputs ==
    { <<>>,
      File(<<"r", ".", "P", "D", "F">>, 1),
      File(<<"r", ".", "t", "x", "t">>, 1),
      File(<<"r", ".", "p", "d", "f">>, MaxFileSize + 1) }
AnswerInputs == { <<>>, <<"y">> }

InputsFor(name) ==
    CASE name = "fullName" -> NameInputs
      [] name = "email" -> EmailInputs
      [] name = "phone" -> PhoneInputs
      [] OTHER -> AnswerInputs

Job(q1, q2, q3, q4, d, t) ==
    [question1 |-> q1, question2 |-> q2, question3 |-> q3, question4 |-> q4,
     applicationCloseDate |-> d, applicationCloseTime |-> t]

Q == <<"Q">>

\* the job descriptors a session is started with; the first has the shape of
\* the one the page is built with (four questions, a close date and time)
JobInfos ==
    { Job(Q, Q, Q, Q, <<0>>, <<1>>),
      Job(<<>>, <<>>, <<>>, <<>>, <<>>, <<>>),
      Job(<<>>, Q, <<>>, <<>>, <<0>>, <<>>),
      Job(Q, <<>>, Q, <<>>, <<>>, <<1>>),
      Job(<<>>, <<>>, <<>>, <<>>, <<0>>, <<1>>) }

EmptyForm ==
    [fullName |-> <<>>, email |-> <<>>, phone |-> <<>>, cv |-> <<>>,
     answer1 |-> <<>>, answer2 |-> <<>>, answer3 |-> <<>>, answer4 |-> <<>>]

(* -------------------------------- Init -------------------------------- *)
\* the state after the first render and the mount effect: the load timeout
\* is pending
Init ==
    /\ step = 1
    /\ isSubmitting = FALSE
    /\ isSuccess = FALSE
    /\ isClosed = FALSE
    /\ isLoading = TRUE
    /\ jobInfo \in JobInfos
    /\ formData = EmptyForm
    /\ errors = [f \in FieldNames |-> Unset]
    /\ touched = [f \in FieldNames |-> FALSE]
    /\ loadTimer = TRUE
    /\ submitTimers = 0
    /\ sinkDraft = <<>>
    /\ now = 0

(* ------------------------------- actions ------------------------------ *)
\* the wall clock advances
Tick ==
    /\ now < MaxClock
    /\ now' = now + 1
    /\ UNCHANGED <<step, isSubmitting, isSuccess, isClosed, isLoading,
                   jobInfo, formData, errors, touched,
                   loadTimer, submitTimers, sinkDraft>>

\* checkIfClosed comparing with >= instead of >
checkIfClosed_NotStrict ==
    /\ loadTimer
    /\ loadTimer' = FALSE
    /\ isClosed' =
         IF /\ Truthy(jobInfo.applicationCloseDate)
            /\ Truthy(jobInfo.applicationCloseTime)
            /\ now >= closeDateTime(jobInfo)
         THEN TRUE
         ELSE isClosed
    /\ isLoading' = FALSE
    /\ UNCHANGED <<step, isSubmitting, isSuccess, jobInfo, formData,
                   errors, touched, submitTimers, sinkDraft, now>>

\* checkIfClosed run from an interval: the timer stays armed
checkIfClosed_Repeating ==
    /\ loadTimer
    /\ loadTimer' = TRUE
    /\ isClosed' =
         IF /\ Truthy(jobInfo.applicationCloseDate)
            /\ Truthy(jobInfo.applicationCloseTime)
            /\ now > closeDateTime(jobInfo)
         THEN TRUE
         ELSE isClosed
    /\ isLoading' = FALSE
    /\ UNCHANGED <<step, isSubmitting, isSuccess, jobInfo, formData,
                   errors, touched, submitTimers, sinkDraft, now>>

\* the load timeout fires and runs checkIfClosed
checkIfClosed ==
    /\ loadTimer
    /\ loadTimer' = FALSE
    /\ isClosed' =
         IF /\ Truthy(jobInfo.applicationCloseDate)
            /\ Truthy(jobInfo.applicationCloseTime)
            /\ now > closeDateTime(jobInfo)
         THEN TRUE
         ELSE isClosed
    /\ isLoading' = FALSE
    /\ UNCHANGED <<step, isSubmitting, isSuccess, jobInfo, formData,
                   errors, touched, submitTimers, sinkDraft, now>>

\* the error handleInputChange and handleFieldBlur compute for a field
FieldError(name, value) ==
    IF name = "fullName" THEN validateFullName(value)
    ELSE IF name = "email" THEN validateEmail(value)
    ELSE IF name = "phone" THEN validatePhone(value)
    ELSE NoError

\* the step-1 inputs rendered at every step
InputRendered_TextAtEveryStep(name) ==
    /\ FormRendered
    /\ \/ name \in TextFields
       \/ step = 2 /\ name \in AnswerFields /\ Truthy(QuestionOf(name))

\* the input or textarea called name is on the page
InputRendered(name) ==
    /\ FormRendered
    /\ \/ step = 1 /\ name \in TextFields
       \/ step = 2 /\ name \in AnswerFields /\ Truthy(QuestionOf(name))

\* handleInputChange that never revalidates
handleInputChange_NeverValidates(name, value) ==
    /\ InputRendered(name)
    /\ formData' = [formData EXCEPT ![name] = value]
    /\ UNCHANGED <<step, isSubmitting, isSuccess, isClosed, isLoading, jobInfo,
                   errors, touched, loadTimer, submitTimers, sinkDraft, now>>

\* handleInputChange that also marks the field touched
handleInputChange_MarksTouched(name, value) ==
    /\ InputRendered(name)
    /\ formData' = [formData EXCEPT ![name] = value]
    /\ touched' = [touched EXCEPT ![name] = TRUE]
    /\ errors' = IF touched[name]
                 THEN [errors EXCEPT ![name] = FieldError(name, value)]
                 ELSE errors
    /\ UNCHANGED <<step, isSubmitting, isSuccess, isClosed, isLoading,
                   jobInfo, loadTimer, submitTimers, sinkDraft, now>>

\* handleInputChange validating whether or not the field was touched
handleInputChange_AlwaysValidates(name, value) ==
    /\ InputRendered(name)
    /\ formData' = [formData EXCEPT ![name] = value]
    /\ errors' = [errors EXCEPT ![name] = FieldError(name, value)]
    /\ UNCHANGED <<step, isSubmitting, isSuccess, isClosed, isLoading,
                   jobInfo, touched, loadTimer, submitTimers, sinkDraft, now>>

handleInputChange(name, value) ==
    /\ InputRendered(name)
    /\ formData' = [formData EXCEPT ![name] = value]
    /\ errors' = IF touched[name]
                 THEN [errors EXCEPT ![name] = FieldError(name, value)]
                 ELSE errors
    /\ UNCHANGED <<step, isSubmitting, isSuccess, isClosed, isLoading,
                   jobInfo, touched, loadTimer, submitTimers, sinkDraft, now>>

handleFieldBlur(fieldName) ==
    /\ InputRendered(fieldName)
    /\ fieldName \in TextFields
    /\ touched' = [touched EXCEPT ![fieldName] = TRUE]
    /\ errors' = [errors EXCEPT
                    ![fieldName] = FieldError(fieldName, formData[fieldName])]
    /\ UNCHANGED <<step, isSubmitting, isSuccess, isClosed, isLoading,
                   jobInfo, formData, loadTimer, submitTimers, sinkDraft, now>>

\* files is the file list of the change event: empty, or one file
handleFileChange(files) ==
    /\ FormRendered
    /\ step = 1
    /\ IF Truthy(files)
       THEN /\ formData' = [formData EXCEPT !.cv = files]
            /\ touched' = [touched EXCEPT !.cv = TRUE]
            /\ errors' = [errors EXCEPT !.cv = validateCV(files)]
       ELSE UNCHANGED <<formData, touched, errors>>
    /\ UNCHANGED <<step, isSubmitting, isSuccess, isClosed, isLoading,
                   jobInfo, loadTimer, submitTimers, sinkDraft, now>>

\* a Back button that also clears the validation state
Back_ResetsValidation ==
    /\ FormRendered
    /\ step > 1
    /\ step' = step - 1
    /\ errors' = [f \in FieldNames |-> Unset]
    /\ touched' = [f \in FieldNames |-> FALSE]
    /\ UNCHANGED <<isSubmitting, isSuccess, isClosed, isLoading,
                   jobInfo, formData, loadTimer, submitTimers, sinkDraft, now>>

\* a Back button rendered at every step
Back_AtEveryStep ==
    /\ FormRendered
    /\ step' = step - 1
    /\ UNCHANGED <<isSubmitting, isSuccess, isClosed, isLoading,
                   jobInfo, formData, errors, touched,
                   loadTimer, submitTimers, sinkDraft, now>>

\* the Back button
Back ==
    /\ FormRendered
    /\ step > 1
    /\ step' = step - 1
    /\ UNCHANGED <<isSubmitting, isSuccess, isClosed, isLoading,
                   jobInfo, formData, errors, touched,
                   loadTimer, submitTimers, sinkDraft, now>>

\* a Next button that checks the answers before leaving step 2
NextButton_ChecksAnswers ==
    /\ FormRendered
    /\ step < 3
    /\ IF step = 1
       THEN /\ errors' = Step1Errors(formData)
            /\ touched' = Step1Touched
            /\ step' = IF validateStep1(formData) THEN step + 1 ELSE step
       ELSE /\ step' = IF validateStep2(formData, jobInfo)
                        THEN step + 1 ELSE step
            /\ UNCHANGED <<errors, touched>>
    /\ UNCHANGED <<isSubmitting, isSuccess, isClosed, isLoading,
                   jobInfo, formData, loadTimer, submitTimers, sinkDraft, now>>

\* the Next button
NextButton ==
    /\ FormRendered
    /\ step < 3
    /\ IF step = 1
       THEN /\ errors' = Step1Errors(formData)
            /\ touched' = Step1Touched
            /\ step' = IF validateStep1(formData) THEN step + 1 ELSE step
       ELSE /\ step' = step + 1
            /\ UNCHANGED <<errors, touched>>
    /\ UNCHANGED <<isSubmitting, isSuccess, isClosed, isLoading,
                   jobInfo, formData, loadTimer, submitTimers, sinkDraft, now>>

\* handleSubmit reachable from a submit event at any step
handleSubmit_AnyStep ==
    /\ FormRendered
    /\ SubmitButtonEnabled
    /\ submitTimers < MaxTimers
    /\ IF ~validateStep2(formData, jobInfo)
       THEN UNCHANGED <<isSubmitting, submitTimers, sinkDraft>>
       ELSE /\ isSubmitting' = TRUE
            /\ submitTimers' = submitTimers + 1
            /\ sinkDraft' = <<formData>>
    /\ UNCHANGED <<step, isSuccess, isClosed, isLoading, jobInfo,
                   formData, errors, touched, loadTimer, now>>

\* handleSubmit sending the user back to the questions on a refusal
handleSubmit_RefusalStepsBack ==
    /\ FormRendered
    /\ step = 3
    /\ SubmitButtonEnabled
    /\ submitTimers < MaxTimers
    /\ IF ~validateStep2(formData, jobInfo)
       THEN /\ step' = 2
            /\ UNCHANGED <<isSubmitting, submitTimers, sinkDraft>>
       ELSE /\ isSubmitting' = TRUE
            /\ submitTimers' = submitTimers + 1
            /\ sinkDraft' = <<formData>>
            /\ step' = step
    /\ UNCHANGED <<isSuccess, isClosed, isLoading, jobInfo,
                   formData, errors, touched, loadTimer, now>>

\* the form's submit event: the Submit Application button, rendered at step 3
handleSubmit ==
    /\ FormRendered
    /\ step = 3
    /\ SubmitButtonEnabled
    /\ submitTimers < MaxTimers
    /\ IF ~validateStep2(formData, jobInfo)
       THEN UNCHANGED <<isSubmitting, submitTimers, sinkDraft>>
       ELSE /\ isSubmitting' = TRUE
            /\ submitTimers' = submitTimers + 1
            /\ sinkDraft' = <<formData>>
    /\ UNCHANGED <<step, isSuccess, isClosed, isLoading, jobInfo,
                   formData, errors, touched, loadTimer, now>>

\* the submit timeout without setIsSuccess(true)
SubmitTimeout_NoSuccess ==
    /\ submitTimers > 0
    /\ submitTimers' = submitTimers - 1
    /\ isSubmitting' = FALSE
    /\ UNCHANGED <<step, isSuccess, isClosed, isLoading, jobInfo, formData,
                   errors, touched, loadTimer, sinkDraft, now>>

\* the submit timeout without setIsSubmitting(false)
SubmitTimeout_KeepsSubmitting ==
    /\ submitTimers > 0
    /\ submitTimers' = submitTimers - 1
    /\ isSuccess' = TRUE
    /\ UNCHANGED <<step, isSubmitting, isClosed, isLoading, jobInfo, formData,
                   errors, touched, loadTimer, sinkDraft, now>>

\* a submit timeout fires
SubmitTimeout ==
    /\ submitTimers > 0
    /\ submitTimers' = submitTimers - 1
    /\ isSubmitting' = FALSE
    /\ isSuccess' = TRUE
    /\ UNCHANGED <<step, isClosed, isLoading, jobInfo, formData,
                   errors, touched, loadTimer, sinkDraft, now>>

Next ==
    \/ Tick
    \/ checkIfClosed
    \/ \E name \in TextFields \cup AnswerFields :
         \E value \in InputsFor(name) : handleInputChange(name, value)
    \/ \E fieldName \in TextFields : handleFieldBlur(fieldName)
    \/ \E files \in FileInputs : handleFileChange(files)
    \/ Back
    \/ NextButton
    \/ handleSubmit
    \/ SubmitTimeout

Spec == Init /\ [][Next]_vars

(* ------------------- specifications of the validators ---------------- *)
\* the page once the load timeout has run and the form is shown
InitLoaded ==
    /\ step = 1
    /\ isSubmitting = FALSE
    /\ isSuccess = FALSE
    /\ isClosed = FALSE
    /\ isLoading = FALSE
    /\ jobInfo \in JobInfos
    /\ formData = EmptyForm
    /\ errors = [f \in FieldNames |-> Unset]
    /\ touched = [f \in FieldNames |-> FALSE]
    /\ loadTimer = FALSE
    /\ submitTimers = 0
    /\ sinkDraft = <<>>
    /\ now = 0

\* longest name typed into the full name input
MaxNameLen == 4

\* a letter, a decimal digit and the space character
NameAlphabet == {"a", "1", " "}

BoundedNames == UNION {[1..k -> NameAlphabet] : k \in 0..MaxNameLen}

\* the user types into and leaves the full name input
NextName ==
    \/ \E value \in BoundedNames : handleInputChange("fullName", value)
    \/ handleFieldBlur("fullName")

SpecName == InitLoaded /\ [][NextName]_vars

\* most "."-separated segments of a file name
MaxSegments == 2

Segments ==
    { <<>>, <<"r">>, <<"p", "d">>, <<"t", "x", "t">>,
      <<"p", "d", "f">>, <<"P", "D", "F">>, <<"P", "d", "f">>,
      <<"d", "o", "c">>, <<"d", "o", "c", "x">>, <<"D", "O", "C", "X">> }

\* the segments of segs joined by "."
RECURSIVE JoinDots(_)
JoinDots(segs) ==
    IF Len(segs) = 1 THEN segs[1]
    ELSE segs[1] \o <<".">> \o JoinDots(Tail(segs))

BoundedFileNames ==
    { n \in UNION { {JoinDots(segs) : segs \in [1..k -> Segments]} :
                      k \in 1..MaxSegments } : n # <<>> }

\* the user picks a one-byte file
NextFileName ==
    \E n \in BoundedFileNames : handleFileChange(File(n, 1))

SpecFileName == InitLoaded /\ [][NextFileName]_vars

\* how far below and above the size limit the picked files go
SizeMargin == 10

BoundedSizes ==
    {1} \cup ((MaxFileSize - SizeMargin)..(MaxFileSize + SizeMargin))

SizedFileNames ==
    { <<"r", ".", "p", "d", "f">>, <<"r", ".", "P", "D", "F">>,
      <<"r", ".", "d", "o", "c">>, <<"r", ".", "d", "o", "c", "x">>,
      <<"r", ".", "t", "x", "t">> }

\* the user picks a file of some size
NextFileSize ==
    \E n \in SizedFileNames : \E size \in BoundedSizes :
        handleFileChange(File(n, size))

SpecFileSize == InitLoaded /\ [][NextFileSize]_vars

\* an armed timeout fires: the load timeout and every submit timeout run
\* their callback once their delay has passed
FairSpec ==
    /\ Init
    /\ [][Next]_vars
    /\ WF_vars(checkIfClosed)
    /\ WF_vars(SubmitTimeout)

TypeOK ==
    /\ step \in 1..3
    /\ isSubmitting \in BOOLEAN
    /\ isSuccess \in BOOLEAN
    /\ isClosed \in BOOLEAN
    /\ isLoading \in BOOLEAN
    /\ loadTimer \in BOOLEAN
    /\ submitTimers \in 0..MaxTimers
    /\ now \in 0..MaxClock

(* ------------------------------- claims ------------------------------- *)
\* the four step-1 validators return the empty message for the draft
Step1Valid ==
    /\ validateFullName(formData.fullName) = ""
    /\ validateEmail(formData.email) = ""
    /\ validatePhone(formData.phone) = ""
    /\ validateCV(formData.cv) = ""

\* C1: a Next request at step 1 moves the session to step 2 if and only if
\* all four step-1 validators return the empty message for the current
\* draft; otherwise the step stays 1.
C1_NextAtStep1 ==
    [][(NextButton /\ step = 1) =>
          /\ step' = 2 <=> Step1Valid
          /\ step' # 2 => step' = 1]_vars

\* a state that Next reaches from step 1 with a valid draft (the final state
\* of a granted request)
C1_Witness ==
    /\ step = 2
    /\ Step1Valid
    /\ touched = Step1Touched
    /\ ~isSubmitting

\* every question slot present in the job descriptor has a non-empty answer
PresentAnswered ==
    /\ jobInfo.question1 # <<>> => formData.answer1 # <<>>
    /\ jobInfo.question2 # <<>> => formData.answer2 # <<>>
    /\ jobInfo.question3 # <<>> => formData.answer3 # <<>>
    /\ jobInfo.question4 # <<>> => formData.answer4 # <<>>

\* the step starts a submission: a submit timeout is armed and the session
\* is Submitting
SubmitAccepted ==
    /\ submitTimers' = submitTimers + 1
    /\ isSubmitting'

\* C2: a submit request is accepted if and only if every question slot
\* present in the job descriptor has a non-empty answer; absent slots impose
\* no requirement, and a present question 2 with an empty answer 2 refuses
\* the request whatever the other answers are.
C2_SubmitGuard ==
    [][handleSubmit =>
          /\ SubmitAccepted <=> PresentAnswered
          /\ ~SubmitAccepted => UNCHANGED <<isSubmitting, submitTimers>>
          /\ (jobInfo.question2 # <<>> /\ formData.answer2 = <<>>)
                => ~SubmitAccepted]_vars

\* an accepted submission of a descriptor with question 2 present and
\* question 1 absent: answer 1 is empty and did not block it
C2_Witness ==
    /\ isSubmitting
    /\ step = 3
    /\ jobInfo.question1 = <<>>
    /\ jobInfo.question2 # <<>>
    /\ formData.answer1 = <<>>
    /\ formData.answer2 # <<>>

\* C3: while a submission is outstanding a second submit request is
\* rejected: never more than one submit timeout is pending.
C3_SingleSubmission ==
    /\ submitTimers <= 1
    /\ isSubmitting => ~ENABLED handleSubmit

\* a submission is outstanding and the page shows the submit button again
C3_Witness ==
    /\ isSubmitting
    /\ submitTimers = 1
    /\ step = 3
    /\ FormRendered

\* C4: from the moment the session enters Submitting until it reaches
\* Succeeded, no field of the draft changes.
C4_DraftImmutable ==
    [][isSubmitting => formData' = formData]_vars

\* C5: when the session reaches Succeeded, the e-mail address shown is the
\* e-mail of the draft as it was when the submit request was accepted.
C5_ConfirmationEmail ==
    isSuccess => formData.email = sinkDraft[1].email

\* C6: the session enters Submitting, and a draft is handed to the sink,
\* only from step 3.
C6_SubmitOnlyAtStep3 ==
    [][(\/ ~isSubmitting /\ isSubmitting'
        \/ submitTimers' > submitTimers
        \/ sinkDraft' # sinkDraft) => step = 3 /\ step' = 3]_vars

\* a submission has just been accepted on the review step
C6_Witness ==
    /\ isSubmitting
    /\ step = 3
    /\ sinkDraft = <<formData>>

\* the descriptor has a close date and time and the clock is past them
PastDeadline ==
    /\ jobInfo.applicationCloseDate # <<>>
    /\ jobInfo.applicationCloseTime # <<>>
    /\ closeDateTime(jobInfo) < now

\* C7: when the deadline gate is evaluated, the session enters Closed if and
\* only if the descriptor has a close date and a close time and the current
\* instant is strictly after the close instant; in every other case the
\* session becomes Active at step 1 with an empty draft.
C7_DeadlineGate ==
    [][checkIfClosed =>
          /\ isClosed' <=> PastDeadline
          /\ ~isLoading'
          /\ ~PastDeadline =>
                /\ ~isClosed' /\ ~isSubmitting' /\ ~isSuccess'
                /\ step' = 1
                /\ formData' = EmptyForm]_vars

\* the gate closed a session whose close instant had passed
C7_Witness ==
    /\ isClosed
    /\ ~isLoading
    /\ PastDeadline

\* C8: Closed is terminal: once the session is Closed, no draft field
\* changes, no step transition and no submission happens, and the session
\* never leaves Closed.
C8_ClosedTerminal ==
    [][isClosed =>
          /\ isClosed'
          /\ UNCHANGED <<step, formData, errors, touched, isSubmitting,
                         isSuccess, isLoading, submitTimers, sinkDraft>>]_vars

\* a closed session, some time after the gate ran
C8_Witness ==
    /\ isClosed
    /\ ~loadTimer
    /\ now = MaxClock

\* C9: the deadline gate is evaluated once: after it has run it never runs
\* again, and a session that became Active never moves to Closed, also when
\* the clock passes the close instant afterwards.
C9_OneShotGate ==
    [][/\ ~loadTimer => ~loadTimer'
       /\ (isClosed' # isClosed \/ isLoading' # isLoading)
             => loadTimer /\ ~loadTimer'
       /\ (~isLoading /\ ~isClosed) => ~isClosed']_vars

\* an Active session whose close instant has passed
C9_Witness ==
    /\ ~isLoading
    /\ ~isClosed
    /\ ~loadTimer
    /\ PastDeadline

\* the session states the flags select; the step machine (Active) is the
\* state with no flag set
SessionStates ==
    {s \in {"Loading", "Closed", "Submitting", "Succeeded", "Active"} :
        \/ s = "Loading" /\ isLoading
        \/ s = "Closed" /\ isClosed
        \/ s = "Submitting" /\ isSubmitting
        \/ s = "Succeeded" /\ isSuccess
        \/ s = "Active" /\ ~(isLoading \/ isClosed \/ isSubmitting \/ isSuccess)}

ValidatorResult(f, fd) ==
    CASE f = "fullName" -> validateFullName(fd.fullName)
      [] f = "email" -> validateEmail(fd.email)
      [] f = "phone" -> validatePhone(fd.phone)
      [] f = "cv" -> validateCV(fd.cv)

\* all four step-1 fields are touched and each stored error is the
\* validator's result on the draft
Step1Refreshed ==
    /\ \A f \in Step1Fields : touched[f]
    /\ \A f \in Step1Fields : errors[f] = ValidatorResult(f, formData)

\* C11: every Next request at step 1, granted or refused, leaves all four
\* step-1 fields touched and each stored error equal to the validator's
\* result on the current draft, whatever was touched before; a repeated
\* request with no mutation in between leaves touched and errors unchanged.
C11_BulkPass ==
    [][(NextButton /\ step = 1) =>
          /\ formData' = formData
          /\ Step1Refreshed'
          /\ Step1Refreshed => UNCHANGED <<touched, errors>>]_vars

\* a refused request: the step is still 1, the untouched, still empty file
\* field has become touched and carries its error
C11_Witness ==
    /\ step = 1
    /\ Step1Refreshed
    /\ formData.cv = <<>>
    /\ errors.cv # ""
    /\ errors.fullName = ""

\* C12: a Next request at step 2 always moves the session to step 3, also
\* when a question present in the descriptor has an empty answer.
C12_Step2Unconditional ==
    (FormRendered /\ step = 2) =>
        /\ ENABLED (NextButton /\ step' = 3)
        /\ ~ENABLED (NextButton /\ step' # 3)

\* the review step reached with a present question left unanswered
C12_Witness ==
    /\ step = 3
    /\ jobInfo.question2 # <<>>
    /\ formData.answer2 = <<>>
    /\ ~isSubmitting

\* C13: a Back request is always permitted at step 3 and at step 2; it
\* lowers the step by exactly one and leaves the draft, the stored errors
\* and the touched set unchanged.
C13_BackFrame ==
    [][/\ (FormRendered /\ step \in {2, 3}) => ENABLED Back
       /\ Back =>
            /\ step \in {2, 3}
            /\ step' = step - 1
            /\ UNCHANGED <<formData, errors, touched>>]_vars

\* back on step 1 after the answers were typed: the answer is still there
C13_Witness ==
    /\ step = 1
    /\ formData.answer1 # <<>>
    /\ Step1Refreshed
    /\ ~isSubmitting

\* C14: a refused submit request (a present question has an empty answer)
\* performs no state transition: step, draft, errors, touched and the
\* submitting and success flags are unchanged and no sink call is started.
C14_RefusedSubmit ==
    [][(handleSubmit /\ ~PresentAnswered) =>
          UNCHANGED <<step, formData, errors, touched, isSubmitting,
                      isSuccess, isClosed, isLoading, submitTimers,
                      sinkDraft>>]_vars

\* the review step with a present question unanswered and nothing
\* submitted: a submit request here is refused
C14_Witness ==
    /\ step = 3
    /\ FormRendered
    /\ ~isSubmitting
    /\ ~PresentAnswered
    /\ sinkDraft = <<>>

\* C15: the step is always 1, 2 or 3 and every step change is one of
\* 1 -> 2, 2 -> 3, 3 -> 2, 2 -> 1.
C15_StepRange ==
    /\ [](step \in {1, 2, 3})
    /\ [][step' # step =>
            <<step, step'>> \in {<<1, 2>>, <<2, 3>>, <<3, 2>>, <<2, 1>>}]_vars

\* back on step 1 after the review step was reached
C15_Witness ==
    /\ step = 1
    /\ formData.answer2 # <<>>
    /\ Step1Valid

\* what a change of step-1 field f must do to its validation state: a
\* touched field gets its error recomputed, an untouched field keeps no
\* error and stays untouched
LiveFeedback(f) ==
    formData'[f] # formData[f] =>
        IF touched[f]
        THEN touched'[f] /\ errors'[f] = ValidatorResult(f, formData')
        ELSE ~touched'[f] /\ errors'[f] = Unset

\* C17: for each of the four step-1 fields (fullName, email, phone, cv), a
\* mutation of the field recomputes and stores its error if the field is
\* touched, and leaves its error unset and the field untouched if it is not.
C17_LiveValidation ==
    [][\A f \in Step1Fields : LiveFeedback(f)]_vars

\* C17 as amended: the rule holds for the three text fields; selecting a
\* file always marks cv touched and stores the file validator's result,
\* whether or not cv was touched before.
C17_LiveValidationText ==
    [][/\ \A f \in TextFields : LiveFeedback(f)
       /\ formData'.cv # formData.cv =>
            touched'.cv /\ errors'.cv = validateCV(formData'.cv)]_vars

\* a name typed into the untouched name field (no error stored) and a file
\* picked (touched, error stored) before any blur or Next
C17_Witness ==
    /\ formData.fullName # <<>>
    /\ ~touched.fullName
    /\ errors.fullName = Unset
    /\ formData.cv # <<>>
    /\ touched.cv
    /\ errors.cv # Unset
    /\ ~touched.email
    /\ ~touched.phone

\* the name holds a decimal digit
HasDigit(name) ==
    \E i \in 1..Len(name) :
        name[i] \in {"0", "1", "2", "3", "4", "5", "6", "7", "8", "9"}

\* C18: the name validator returns a non-empty message for every name that
\* contains a decimal digit and the empty message for every name of length
\* at least 2 that contains no digit.
C18_NameValidator ==
    touched.fullName =>
        /\ HasDigit(formData.fullName) => errors.fullName # ""
        /\ (Len(formData.fullName) >= 2 /\ ~HasDigit(formData.fullName))
              => errors.fullName = ""

\* C18 as amended: the empty message is returned for every name without a
\* digit whose length after trimming the whitespace at both ends is at
\* least 2.
C18_NameValidatorTrimmed ==
    touched.fullName =>
        /\ HasDigit(formData.fullName) => errors.fullName # ""
        /\ (Len(Trim(formData.fullName)) >= 2 /\ ~HasDigit(formData.fullName))
              => errors.fullName = ""

\* a name with a leading space and two letters was validated and accepted
C18_Witness ==
    /\ touched.fullName
    /\ formData.fullName = <<" ", "a", "a">>
    /\ errors.fullName = ""

\* the file name holds a "."
HasDot(name) == \E i \in 1..Len(name) : name[i] = "."

AcceptedExtensions ==
    { <<"p", "d", "f">>, <<"d", "o", "c">>, <<"d", "o", "c", "x">> }

TypeMessage == "Only PDF, DOC, DOCX allowed"

\* C19: the file validator takes the extension from the final
\* "."-delimited segment of the file name and compares it without regard to
\* case with pdf, doc and docx; every file whose name holds no "." fails
\* type validation, also when the name itself is pdf, doc or docx.
C19_Extension ==
    (formData.cv # <<>> /\ touched.cv) =>
        LET name == formData.cv[1].name
        IN  /\ HasDot(name) =>
                 (errors.cv = TypeMessage <=>
                    ToLowerCase(LastSegment(name)) \notin AcceptedExtensions)
            /\ ~HasDot(name) => errors.cv = TypeMessage

\* C20: for a file with an accepted extension the validator returns the
\* empty message for every size up to 10,485,760 bytes and the too-large
\* message for every size from 10,485,761 bytes; for a file with another
\* extension the type failure is reported whatever the size.
C20_SizeLimit ==
    (formData.cv # <<>> /\ touched.cv) =>
        LET name == formData.cv[1].name
            size == formData.cv[1].size
            accepted == ToLowerCase(LastSegment(name)) \in AcceptedExtensions
        IN  /\ (accepted /\ size <= 10485760) => errors.cv = ""
            /\ (accepted /\ size >= 10485761)
                  => errors.cv = "File size must be less than 10MB"
            /\ ~accepted => errors.cv = TypeMessage

\* a file of exactly 10,485,760 bytes with an upper-case extension passed
C20_Witness ==
    /\ touched.cv
    /\ formData.cv = File(<<"r", ".", "P", "D", "F">>, 10485760)
    /\ errors.cv = ""

\* C21: in every reachable state, for each step-1 field a stored error
\* exists only if the field is touched, and the stored error of a touched
\* field is the validator's result on the field's current value.
C21_ErrorsFresh ==
    \A f \in Step1Fields :
        /\ errors[f] # Unset => touched[f]
        /\ touched[f] => errors[f] = ValidatorResult(f, formData)

\* a touched name field whose value was changed afterwards, next to a field
\* that was never touched
C21_Witness ==
    /\ touched.fullName
    /\ formData.fullName = <<"A", "1">>
    /\ errors.fullName = "Name cannot contain numbers"
    /\ ~touched.email
    /\ formData.email # <<>>

\* C22: in every reachable state where the step is 2 or 3, all four step-1
\* fields of the draft are valid.
C22_Step1ValidLater ==
    step \in {2, 3} => Step1Valid

\* the review step, reached with a file picked and nothing submitted yet
C22_Witness ==
    /\ step = 3
    /\ ~isSubmitting
    /\ formData.cv # <<>>
    /\ Step1Valid
    /\ sinkDraft = <<>>

\* every variable but the clock
ProgramState ==
    <<step, isSubmitting, isSuccess, isClosed, isLoading, jobInfo, formData,
      errors, touched, loadTimer, submitTimers, sinkDraft>>

\* C23: when the two timeouts fire, Loading always resolves to Closed or
\* Active and every accepted submit leaves Submitting and reaches
\* Succeeded; Succeeded is absorbing (no event leaves it or changes the
\* draft) and is entered only from Submitting.
C23_Termination ==
    /\ isLoading ~> (~isLoading /\ (isClosed \/ FormRendered))
    /\ isSubmitting ~> (isSuccess /\ ~isSubmitting)
    /\ [][isSuccess => UNCHANGED ProgramState]_vars
    /\ [][(~isSuccess /\ isSuccess') => isSubmitting]_vars

\* Succeeded, reached from the review step after the load and the submit
\* timeout have both fired
C23_Witness ==
    /\ isSuccess
    /\ ~isLoading
    /\ ~loadTimer
    /\ step = 3
    /\ sinkDraft = <<formData>>

\* C24: a change of a screening answer updates only that answer: the step,
\* the other draft fields, the stored errors and the touched set are
\* unchanged, and an answer field is never touched and never has a stored
\* error.
C24_AnswerFrame ==
    /\ [](\A a \in AnswerFields : ~touched[a] /\ errors[a] = Unset)
    /\ [][\A a \in AnswerFields :
            formData'[a] # formData[a] =>
                /\ \A f \in FieldNames \ {a} : formData'[f] = formData[f]
                /\ UNCHANGED <<step, errors, touched>>]_vars

\* an answer typed on the questions step, the other answer still empty
C24_Witness ==
    /\ step = 2
    /\ formData.answer1 # <<>>
    /\ formData.answer3 = <<>>
    /\ jobInfo.question3 # <<>>
    /\ ~isSubmitting
====
